---- MODULE Spec2Model ----
(***************************************************************************)
(* Model of src/stream_proxy.py: the Flask handlers extract_stream and     *)
(* proxy_iframe, the browser helper get_chrome_driver and the lookup       *)
(* sequence extract_video_from_iframe.  Each worker thread of the          *)
(* threaded server (app.run(threaded=True)) runs one handler at a time;    *)
(* its position is pc, its local variables are the fields of frame.        *)
(* Python strings are sequences of tokens, so that "'http' in content" is  *)
(* a real containment test.                                                *)
(***************************************************************************)
EXTENDS Integers, Sequences, FiniteSets, TLC

VARIABLES
    workers,    \* the worker threads that serve requests
    clients,    \* which requests the clients send: "any" or "representative"
    frame,      \* frame[t]: the handler activation of worker t
    browsers,   \* the browser instances created so far, by id
    responses,  \* responses[id]: the status codes sent in answer to request id
    nextReq     \* the id of the next request to arrive

vars == <<workers, clients, frame, browsers, responses, nextReq>>

-----------------------------------------------------------------------------
\* Bounds of the model.
MaxWorkers == 2
MaxReq == 2
MaxScripts == 2

\* Program constant (seconds).
TIMEOUT == 20
\* The page-load timeout of a new WebDriver session (seconds).
DefaultPageLoadTimeout == 300

AllWorkers == 1..MaxWorkers

-----------------------------------------------------------------------------
\* Python values: None and strings (sequences of tokens).
PyNone == [t |-> "None", v |-> <<>>]
PyStr(s) == [t |-> "str", v |-> s]

\* Python truthiness of None and of a string ("if not iframe_url", "if video_url").
TruthyNotNone(x) == x.t = "str"
Truthy(x) == x.t = "str" /\ Len(x.v) > 0

\* "'http' in content": substring test on the token sequence.
Contains(tok, s) == \E i \in 1..Len(s) : s[i] = tok

UrlA == PyStr(<<"http", "//site/embed">>)
VideoA == PyStr(<<"http", "//cdn/a.mp4">>)
VideoB == PyStr(<<"http", "//cdn/b.mp4">>)
ScriptM3u8 == <<"src=", "http", "//cdn/live", ".m3u8">>
ScriptM3u8Alt == <<".m3u8", "http">>
ScriptHttp == <<"fetch", "http", "//ads">>
ScriptOnlyM3u8 == <<"playlist", ".m3u8">>

-----------------------------------------------------------------------------
\* Request bodies as request.get_json() sees them.
Body(kind, hasUrl, url) == [kind |-> kind, hasUrl |-> hasUrl, url |-> url]
NoBody == Body("none", FALSE, PyNone)
MalformedBody == Body("malformed", FALSE, PyNone)
NullBody == Body("null", FALSE, PyNone)
ArrayBody == Body("array", FALSE, PyNone)
ObjectNoUrl == Body("object", FALSE, PyNone)
ObjectUrl(u) == Body("object", TRUE, u)

Bodies ==
    {NoBody, MalformedBody, NullBody, ArrayBody, ObjectNoUrl,
     ObjectUrl(PyNone), ObjectUrl(PyStr(<<>>)), ObjectUrl(UrlA)}

\* A video element of a document: absent, or present with a src attribute.
NoVideo == [present |-> FALSE, src |-> PyNone]
Video(src) == [present |-> TRUE, src |-> src]

\* Sequences over S of length at most n.
SeqUpTo(S, n) == UNION {[1..k -> S] : k \in 0..n}

\* A page as the browser renders it: the top-level document (iframe element,
\* video element, script elements) and the document of its first iframe.
Page(hasIframe, topVideo, topScripts, frameVideo, frameScripts) ==
    [hasIframe |-> hasIframe, topVideo |-> topVideo, topScripts |-> topScripts,
     frameVideo |-> frameVideo, frameScripts |-> frameScripts]

\* about:blank, the document of a browser that has not navigated.
BlankPage == Page(FALSE, NoVideo, <<>>, NoVideo, <<>>)

ScriptContents == {ScriptHttp, ScriptM3u8}
TopVideos == {NoVideo, Video(PyStr(<<>>)), Video(VideoB)}
FrameVideos == {NoVideo, Video(PyNone), Video(VideoA)}
FrameScriptLists == {<<>>, <<ScriptOnlyM3u8, ScriptM3u8Alt>>}

Pages ==
    {Page(FALSE, tv, ts, NoVideo, <<>>) :
        tv \in TopVideos, ts \in SeqUpTo(ScriptContents, MaxScripts)}
    \cup
    {Page(TRUE, x[1], x[2], x[3], x[4]) :
        x \in TopVideos \X SeqUpTo(ScriptContents, MaxScripts)
               \X FrameVideos \X FrameScriptLists}

\* A request: method, route, body, and the page its url leads to.
Request(method, route, body, page) ==
    [method |-> method, route |-> route, body |-> body, page |-> page]

ExtractRoute == "/api/extract-stream"
ProxyRoute == "/api/proxy-iframe"

\* Every request the clients may send.  The page matters only to a POST on
\* the extract route that carries a url.
AllInputs ==
    {Request("OPTIONS", r, b, BlankPage) :
        r \in {ExtractRoute, ProxyRoute}, b \in {NoBody, ObjectUrl(UrlA)}}
    \cup {Request("POST", ProxyRoute, b, BlankPage) : b \in Bodies}
    \cup {Request("POST", ExtractRoute, b, BlankPage) : b \in Bodies \ {ObjectUrl(UrlA)}}
    \cup {Request("POST", ExtractRoute, ObjectUrl(UrlA), p) : p \in Pages}

\* A representative choice of requests for the runs with parallel workers.
ParallelInputs ==
    {Request("OPTIONS", ProxyRoute, NoBody, BlankPage),
     Request("POST", ProxyRoute, ObjectUrl(UrlA), BlankPage),
     Request("POST", ExtractRoute, ObjectUrl(UrlA),
             Page(TRUE, NoVideo, <<>>, Video(VideoA), <<>>)),
     Request("POST", ExtractRoute, ObjectUrl(UrlA),
             Page(TRUE, Video(PyStr(<<>>)), <<ScriptM3u8>>, NoVideo, <<>>))}

Inputs == IF clients = "any" THEN AllInputs ELSE ParallelInputs

-----------------------------------------------------------------------------
\* Responses: jsonify(...) and the status code.
Resp(status, keys, success, video_url, error) ==
    [status |-> status, keys |-> keys, success |-> success,
     video_url |-> video_url, error |-> error]
NoResp == Resp(0, {}, FALSE, PyNone, "")
EmptyJson == Resp(200, {}, FALSE, PyNone, "")
UrlRequired == Resp(400, {"error", "success"}, FALSE, PyNone, "URL requerida")
StreamFoundTruncated(v) ==
    Resp(200, {"success", "video_url", "message"}, TRUE, PyStr(SubSeq(v.v, 1, 1)), "")
StreamFound(v) == Resp(200, {"success", "video_url", "message"}, TRUE, v, "")
NotFound ==
    Resp(404, {"success", "error"}, FALSE, PyNone,
         "No se encontro URL de video en el iframe")
ServerError(e) == Resp(500, {"success", "error"}, FALSE, PyNone, e)
IframeReady(u) == Resp(200, {"success", "iframe_url", "message"}, TRUE, u, "")

\* The value of request.get_json(): a dict, a list or None.
NoData == [type |-> "None", hasUrl |-> FALSE, url |-> PyNone]
Data(body) ==
    [type |-> CASE body.kind = "object" -> "dict"
                [] body.kind = "array" -> "list"
                [] OTHER -> "None",
     hasUrl |-> body.hasUrl, url |-> body.url]

\* request.get_json(): the outcomes for a body.  A body that is not valid
\* JSON raises BadRequest; a request without a JSON body raises (415) or
\* yields None, depending on the Flask version; JSON null yields None.
GetJsonOutcomes(body) ==
    CASE body.kind = "malformed" -> {[exc |-> "BadRequest", data |-> NoData]}
      [] body.kind = "none" ->
            {[exc |-> "UnsupportedMediaType", data |-> NoData],
             [exc |-> "", data |-> NoData]}
      [] OTHER -> {[exc |-> "", data |-> Data(body)]}

\* data.get('url'): dict.get returns None for a missing key; None and a list
\* have no get.
HasGet(data) == data.type = "dict"
DictGet(data) == IF data.hasUrl THEN data.url ELSE PyNone

-----------------------------------------------------------------------------
\* The activation of a handler in worker t.
IdleFrame ==
    [pc |-> "idle", id |-> 0, request |-> Request("", "", NoBody, BlankPage),
     data |-> NoData, iframe_url |-> PyNone, driver |-> 0, video_url |-> PyNone,
     exc |-> "", ret |-> NoResp,
     launches |-> 0, navs |-> 0, navLimit |-> 0, tried |-> <<>>, raised |-> <<>>]

NewFrame(id, req) ==
    [IdleFrame EXCEPT !.pc = IF req.route = ExtractRoute THEN "L140" ELSE "L194",
                      !.id = id, !.request = req]

\* A browser instance (a WebDriver session).
NewBrowser(owner) ==
    [owner |-> owner, doc |-> BlankPage, ctx |-> "top",
     pageLoadTimeout |-> DefaultPageLoadTimeout, quitCalls |-> 0, users |-> {}]

\* The browser a handler's "driver" local names.
SharedDriver(t) == IF frame[t].driver = 0 THEN 0 ELSE 1
DriverOf(t) == frame[t].driver

\* A session accepts commands until it is quit.
Usable(b) == browsers[b].quitCalls = 0

\* The document the commands of session b act on.
CtxVideo(b) ==
    IF browsers[b].ctx = "frame" THEN browsers[b].doc.frameVideo
    ELSE browsers[b].doc.topVideo
CtxScripts(b) ==
    IF browsers[b].ctx = "frame" THEN browsers[b].doc.frameScripts
    ELSE browsers[b].doc.topScripts

\* Lines 101-105: the content of the first script with 'http' and '.m3u8'.
IsM3u8ScriptOr(content) == Contains("http", content) \/ Contains(".m3u8", content)
IsM3u8Script(content) == Contains("http", content) /\ Contains(".m3u8", content)
RECURSIVE FirstM3u8(_)
FirstM3u8(scripts) ==
    IF scripts = <<>> THEN PyNone
    ELSE IF IsM3u8Script(Head(scripts)) THEN PyStr(Head(scripts))
    ELSE FirstM3u8(Tail(scripts))

Step(t, f) == frame' = [frame EXCEPT ![t] = f]
Use(b, id, rec) == browsers' = [browsers EXCEPT ![b] = [rec EXCEPT !.users = @ \cup {id}]]
\* An exception e raised by the statement at f.pc; control goes to the except
\* or finally block "to".
Raise(f, e, to) ==
    [f EXCEPT !.exc = e, !.raised = Append(@, [at |-> f.pc, exc |-> e]), !.pc = to]

\* Lines 140 and 194, "if request.method == 'OPTIONS'".
IsPreflightNever(req) == FALSE
IsPreflight(req) == req.method = "OPTIONS"

\* "except Exception" (lines 177, 211): every exception the handler's steps
\* raise derives from Exception.
CatchesSelenium(e) ==
    e \in {"WebDriverException", "TimeoutException", "NoSuchElementException"}
Catches(e) == TRUE

\* Line 173, "if driver:".
NeedsQuitOnSuccess(f) == f.driver # 0 /\ f.exc = ""
NeedsQuit(f) == f.driver # 0

\* Where control goes when get_chrome_driver raises: no retry, the finally
\* block of line 172.
AfterLaunchFailure == "L172"

\* A command sent to the session of worker t: it raises when the session is
\* gone, and control goes to the enclosing except block.
Command(t, handler, A) ==
    IF Usable(DriverOf(t)) THEN A
    ELSE /\ Step(t, Raise(frame[t], "InvalidSessionIdException", handler))
         /\ Use(DriverOf(t), frame[t].id, browsers[DriverOf(t)])

-----------------------------------------------------------------------------
\* The server accepts a request and hands it to an idle worker (the workers
\* are alike: the first idle one).
Receive(t) ==
    /\ t \in workers
    /\ frame[t].pc = "idle"
    /\ \A u \in workers : u < t => frame[u].pc # "idle"
    /\ nextReq <= MaxReq
    /\ \E req \in Inputs : Step(t, NewFrame(nextReq, req))
    /\ nextReq' = nextReq + 1
    /\ UNCHANGED <<workers, clients, browsers, responses>>

\* extract_stream, lines 140-141.
Options(t) ==
    LET f == frame[t] IN
    /\ f.pc = "L140"
    /\ IF IsPreflight(f.request)
       THEN Step(t, [f EXCEPT !.ret = EmptyJson, !.pc = "respond"])
       ELSE Step(t, [f EXCEPT !.pc = "L144"])
    /\ UNCHANGED <<workers, clients, browsers, responses, nextReq>>

\* Lines 144-151: data = request.get_json(), iframe_url = data.get('url'),
\* the check of the url, and "driver = None".
ReadUrl(t) ==
    LET f == frame[t] IN
    /\ f.pc = "L144"
    /\ \E o \in GetJsonOutcomes(f.request.body) :
         LET g == [f EXCEPT !.data = o.data]
             h == [g EXCEPT !.iframe_url = DictGet(o.data)] IN
         IF o.exc # "" THEN Step(t, Raise(f, o.exc, "L177"))
         ELSE IF ~HasGet(o.data)
              THEN Step(t, Raise([g EXCEPT !.pc = "L145"], "AttributeError", "L177"))
         ELSE IF ~Truthy(h.iframe_url)
              THEN Step(t, [h EXCEPT !.ret = UrlRequired, !.pc = "respond"])
         ELSE Step(t, [h EXCEPT !.driver = 0, !.pc = "L153"])
    /\ UNCHANGED <<workers, clients, browsers, responses, nextReq>>

\* Line 153, driver = get_chrome_driver() (lines 29-53): a new session, or
\* the exception of webdriver.Chrome re-raised by line 53.
Launch(t) ==
    LET f == frame[t]
        g == [f EXCEPT !.launches = @ + 1] IN
    /\ f.pc = "L153"
    /\ \E ok \in BOOLEAN :
         IF ok
         THEN /\ browsers' = Append(browsers, NewBrowser(f.id))
              /\ Step(t, [g EXCEPT !.driver = Len(browsers) + 1, !.pc = "L59"])
         ELSE /\ Step(t, Raise(g, "WebDriverException", AfterLaunchFailure))
              /\ UNCHANGED browsers
    /\ UNCHANGED <<workers, clients, responses, nextReq>>

\* extract_video_from_iframe, line 59, driver.get(iframe_url): the page loads
\* under the page-load timeout the session has at that moment, or the
\* navigation raises.
Navigate(t) ==
    LET f == frame[t]
        d == DriverOf(t)
        g == [f EXCEPT !.navs = @ + 1, !.navLimit = browsers[d].pageLoadTimeout] IN
    /\ f.pc = "L59"
    /\ Command(t, "L109",
         \E ok \in BOOLEAN :
           IF ok
           THEN /\ Use(d, f.id, [browsers[d] EXCEPT !.doc = f.request.page, !.ctx = "top"])
                /\ Step(t, [g EXCEPT !.pc = "L60"])
           ELSE /\ Use(d, f.id, browsers[d])
                /\ Step(t, Raise(g, "TimeoutException", "L109")))
    /\ UNCHANGED <<workers, clients, responses, nextReq>>

\* Line 60, driver.set_page_load_timeout(TIMEOUT).
SetPageLoadTimeout(t) ==
    LET f == frame[t]
        d == DriverOf(t) IN
    /\ f.pc = "L60"
    /\ Command(t, "L109",
         /\ Use(d, f.id, [browsers[d] EXCEPT !.pageLoadTimeout = TIMEOUT])
         /\ Step(t, [f EXCEPT !.pc = "L64"]))
    /\ UNCHANGED <<workers, clients, responses, nextReq>>

\* Lines 64-66, the wait for an iframe element, outside the inner try.
WaitIframe(t) ==
    LET f == frame[t]
        d == DriverOf(t) IN
    /\ f.pc = "L64"
    /\ Command(t, "L109",
         /\ Use(d, f.id, browsers[d])
         /\ IF browsers[d].doc.hasIframe /\ browsers[d].ctx = "top"
            THEN Step(t, [f EXCEPT !.pc = "L71"])
            ELSE Step(t, Raise(f, "TimeoutException", "L109")))
    /\ UNCHANGED <<workers, clients, responses, nextReq>>

\* Lines 71-72, lookup A begins: find the iframe and switch into it.
SwitchToFrame(t) ==
    LET f == [frame[t] EXCEPT !.tried = Append(@, "A")]
        d == DriverOf(t) IN
    /\ f.pc = "L71"
    /\ Command(t, "L84",
         IF browsers[d].doc.hasIframe /\ browsers[d].ctx = "top"
         THEN /\ Use(d, f.id, [browsers[d] EXCEPT !.ctx = "frame"])
              /\ Step(t, [f EXCEPT !.pc = "L75"])
         ELSE /\ Use(d, f.id, browsers[d])
              /\ Step(t, Raise(f, "NoSuchElementException", "L84")))
    /\ UNCHANGED <<workers, clients, responses, nextReq>>

\* Lines 75-82, the wait for a video element in the frame, its src, and
\* "if video_url: return video_url"; with an empty src control leaves the
\* try statement and reaches line 97.
WaitVideo(t) ==
    LET f == frame[t]
        d == DriverOf(t)
        g == [f EXCEPT !.video_url = CtxVideo(d).src] IN
    /\ f.pc = "L75"
    /\ Command(t, "L84",
         /\ Use(d, f.id, browsers[d])
         /\ IF ~CtxVideo(d).present THEN Step(t, Raise(f, "TimeoutException", "L84"))
            ELSE IF Truthy(g.video_url) THEN Step(t, [g EXCEPT !.pc = "L158"])
            ELSE Step(t, [g EXCEPT !.pc = "L97"]))
    /\ UNCHANGED <<workers, clients, responses, nextReq>>

\* Lines 84-86, the inner except block: lookup B begins with
\* driver.switch_to.default_content().
SwitchToDefault(t) ==
    LET f == [frame[t] EXCEPT !.exc = "", !.tried = Append(@, "B")]
        d == DriverOf(t) IN
    /\ f.pc = "L84"
    /\ Command(t, "L109",
         /\ Use(d, f.id, [browsers[d] EXCEPT !.ctx = "top"])
         /\ Step(t, [f EXCEPT !.pc = "L89"]))
    /\ UNCHANGED <<workers, clients, responses, nextReq>>

\* Lines 89-94, driver.find_element(By.TAG_NAME, "video") in the top-level
\* document, inside the except block (NoSuchElementException propagates),
\* its src, and "if video_url: return video_url".
FindTopVideo(t) ==
    LET f == frame[t]
        d == DriverOf(t)
        g == [f EXCEPT !.video_url = CtxVideo(d).src] IN
    /\ f.pc = "L89"
    /\ Command(t, "L109",
         /\ Use(d, f.id, browsers[d])
         /\ IF ~CtxVideo(d).present
            THEN Step(t, Raise(f, "NoSuchElementException", "L109"))
            ELSE IF Truthy(g.video_url) THEN Step(t, [g EXCEPT !.pc = "L158"])
            ELSE Step(t, [g EXCEPT !.pc = "L97"]))
    /\ UNCHANGED <<workers, clients, responses, nextReq>>

\* Lines 97-107, lookup C: the scripts of the current document; the result
\* is the first matching content, or None.
ScanScripts(t) ==
    LET f == [frame[t] EXCEPT !.tried = Append(@, "C")]
        d == DriverOf(t) IN
    /\ f.pc = "L97"
    /\ Command(t, "L109",
         /\ Use(d, f.id, browsers[d])
         /\ Step(t, [f EXCEPT !.video_url = FirstM3u8(CtxScripts(d)), !.pc = "L158"]))
    /\ UNCHANGED <<workers, clients, responses, nextReq>>

\* Lines 109-111, the outer except block of extract_video_from_iframe: log
\* and re-raise into the try statement of line 152.
ExtractExcept(t) ==
    LET f == frame[t] IN
    /\ f.pc = "L109"
    /\ Step(t, [f EXCEPT !.pc = "L172"])
    /\ UNCHANGED <<workers, clients, browsers, responses, nextReq>>

\* Lines 158-170: the return statements, pending until the finally block ran.
CheckResult(t) ==
    LET f == frame[t] IN
    /\ f.pc = "L158"
    /\ IF Truthy(f.video_url)
       THEN Step(t, [f EXCEPT !.ret = StreamFound(f.video_url), !.pc = "L172"])
       ELSE Step(t, [f EXCEPT !.ret = NotFound, !.pc = "L172"])
    /\ UNCHANGED <<workers, clients, browsers, responses, nextReq>>

\* Lines 172-175, the finally block: driver.quit() when a driver exists.  An
\* exception of quit() replaces the pending return value or exception.
Finally(t) ==
    LET f == frame[t]
        d == DriverOf(t) IN
    /\ f.pc = "L172"
    /\ IF NeedsQuit(f)
       THEN \E ok \in BOOLEAN :
              /\ Use(d, f.id, [browsers[d] EXCEPT !.quitCalls = @ + 1,
                                                   !.doc = BlankPage, !.ctx = "top"])
              /\ IF ok /\ Usable(d)
                 THEN Step(t, [f EXCEPT !.pc = IF f.exc # "" THEN "L177" ELSE "respond"])
                 ELSE Step(t, Raise([f EXCEPT !.ret = NoResp], "WebDriverException", "L177"))
       ELSE /\ Step(t, [f EXCEPT !.pc = IF f.exc # "" THEN "L177" ELSE "respond"])
            /\ UNCHANGED browsers
    /\ UNCHANGED <<workers, clients, responses, nextReq>>

\* Lines 177-182 (and 211-213): the exception becomes the 500 response.  An
\* exception the clause does not catch leaves the handler.
Except(t) ==
    LET f == frame[t] IN
    /\ f.pc = "L177"
    /\ IF Catches(f.exc)
       THEN Step(t, [f EXCEPT !.ret = ServerError(f.exc), !.exc = "", !.pc = "respond"])
       ELSE Step(t, [f EXCEPT !.pc = "escaped"])
    /\ UNCHANGED <<workers, clients, browsers, responses, nextReq>>

\* proxy_iframe, lines 194-213.
ProxyIframe(t) ==
    LET f == frame[t] IN
    /\ f.pc = "L194"
    /\ IF IsPreflight(f.request)
       THEN Step(t, [f EXCEPT !.ret = EmptyJson, !.pc = "respond"])
       ELSE \E o \in GetJsonOutcomes(f.request.body) :
              IF o.exc # "" THEN Step(t, Raise(f, o.exc, "L177"))
              ELSE IF ~HasGet(o.data)
                   THEN Step(t, Raise([f EXCEPT !.data = o.data, !.pc = "L199"],
                                      "AttributeError", "L177"))
              ELSE IF ~Truthy(DictGet(o.data))
                   THEN Step(t, [f EXCEPT !.data = o.data, !.iframe_url = DictGet(o.data),
                                          !.ret = UrlRequired, !.pc = "respond"])
              ELSE Step(t, [f EXCEPT !.data = o.data, !.iframe_url = DictGet(o.data),
                                     !.ret = IframeReady(DictGet(o.data)), !.pc = "respond"])
    /\ UNCHANGED <<workers, clients, browsers, responses, nextReq>>

\* The handler has returned: Flask sends the response and the worker is free.
Respond(t) ==
    LET f == frame[t] IN
    /\ f.pc = "respond"
    /\ responses' = [responses EXCEPT ![f.id] = Append(@, f.ret.status)]
    /\ Step(t, IdleFrame)
    /\ UNCHANGED <<workers, clients, browsers, nextReq>>

-----------------------------------------------------------------------------
Handler(t) ==
    \/ Receive(t) \/ Options(t) \/ ReadUrl(t)
    \/ Launch(t) \/ Navigate(t) \/ SetPageLoadTimeout(t) \/ WaitIframe(t)
    \/ SwitchToFrame(t) \/ WaitVideo(t) \/ SwitchToDefault(t) \/ FindTopVideo(t)
    \/ ScanScripts(t) \/ ExtractExcept(t) \/ CheckResult(t) \/ Finally(t)
    \/ Except(t) \/ ProxyIframe(t) \/ Respond(t)

Next == \E t \in AllWorkers : Handler(t)

InitCommon ==
    /\ frame = [t \in AllWorkers |-> IdleFrame]
    /\ browsers = <<>>
    /\ responses = [id \in 1..MaxReq |-> <<>>]
    /\ nextReq = 1

\* One worker at a time, every request.
Init == InitCommon /\ workers = {1} /\ clients = "any"

\* Parallel workers (threaded=True), representative requests.
InitParallel == InitCommon /\ workers = AllWorkers /\ clients = "representative"

Spec == Init /\ [][Next]_vars
SpecParallel == InitParallel /\ [][Next]_vars

-----------------------------------------------------------------------------
\* Vocabulary of the properties.

\* The handler of worker t has returned; its response is frame[t].ret.
Returned(t) == frame[t].pc = "respond"
ExtractPost(f) == f.request.route = ExtractRoute /\ f.request.method = "POST"
RaisedAt(f, at) == \E i \in 1..Len(f.raised) : f.raised[i].at = at
\* Request id is being handled and its handler has not returned yet.
InHandler(id) ==
    \E t \in AllWorkers : frame[t].id = id /\ frame[t].pc \notin {"idle", "respond"}
BrowsersOf(id) == {b \in DOMAIN browsers : browsers[b].owner = id}
IsErrorResp(r, status) ==
    r.status = status /\ r.success = FALSE /\ {"success", "error"} \subseteq r.keys
\* The request supplies no url: no JSON object, or no truthy 'url' in it.
NoUrlSupplied(body) ==
    body.kind # "object" \/ ~body.hasUrl \/ body.url = PyNone \/ body.url = PyStr(<<>>)
\* The browser failed to start, to load the page or to quit.
EnvFailure(f) == RaisedAt(f, "L153") \/ RaisedAt(f, "L59") \/ RaisedAt(f, "L172")

\* C1: every browser instance a request created has had quit() called on it,
\* exactly once, by the time the handler returns, on every exit path; and a
\* request creates at most one browser instance.
C1_BrowserReleased ==
    /\ \A b \in DOMAIN browsers :
         /\ browsers[b].quitCalls <= 1
         /\ ~InHandler(browsers[b].owner) => browsers[b].quitCalls = 1
    /\ \A t \in AllWorkers :
         /\ frame[t].launches <= 1
         /\ Cardinality(BrowsersOf(frame[t].id)) <= 1
         /\ Returned(t) /\ frame[t].driver # 0 =>
              browsers[frame[t].driver].quitCalls = 1

\* C1 witness: a handler returned after extraction raised, its browser quit.
C1_Witness ==
    \E t \in AllWorkers :
        /\ Returned(t) /\ frame[t].driver # 0
        /\ RaisedAt(frame[t], "L89")
        /\ frame[t].ret.status = 500
        /\ browsers[frame[t].driver].quitCalls = 1

\* C2 as stated: a non-empty value returned by extract_video_from_iframe is
\* answered 200 with success = true and that value, whatever the later steps
\* (the release of the browser included) do.
C2_Original ==
    \A t \in AllWorkers :
        Returned(t) /\ ExtractPost(frame[t]) /\ Truthy(frame[t].video_url) =>
            /\ frame[t].ret.status = 200
            /\ frame[t].ret.success = TRUE
            /\ frame[t].ret.video_url = frame[t].video_url

\* C2 amended: a non-empty value returned by extract_video_from_iframe is
\* answered 200 with success = true and that value unchanged when
\* driver.quit() returns normally; when driver.quit() raises, the answer is
\* 500 with success = false.
C2_SuccessUnlessQuitRaises ==
    \A t \in AllWorkers :
        Returned(t) /\ ExtractPost(frame[t]) /\ Truthy(frame[t].video_url) =>
            IF RaisedAt(frame[t], "L172")
            THEN IsErrorResp(frame[t].ret, 500)
            ELSE /\ frame[t].ret.status = 200
                 /\ frame[t].ret.success = TRUE
                 /\ frame[t].ret.keys = {"success", "video_url", "message"}
                 /\ frame[t].ret.video_url = frame[t].video_url

\* C2 witness: a video found in the frame and answered 200 after a normal quit.
C2_Witness ==
    \E t \in AllWorkers :
        /\ Returned(t) /\ ExtractPost(frame[t])
        /\ frame[t].video_url = VideoA
        /\ ~RaisedAt(frame[t], "L172")
        /\ frame[t].ret.status = 200 /\ frame[t].ret.video_url = VideoA
        /\ browsers[frame[t].driver].quitCalls = 1

\* C3 as stated: a POST to the extract route that supplies no url (key
\* absent, null, empty, or no JSON object body at all) is answered 400 with
\* success = false and an error, and creates no browser.
C3_Original ==
    \A t \in AllWorkers :
        Returned(t) /\ ExtractPost(frame[t]) /\ NoUrlSupplied(frame[t].request.body) =>
            /\ IsErrorResp(frame[t].ret, 400)
            /\ frame[t].launches = 0 /\ BrowsersOf(frame[t].id) = {}

\* C3 amended: a POST whose body is a JSON object with 'url' absent, null or
\* empty is answered 400 with success = false and an error; a POST without a
\* JSON object body is answered 500 with success = false and an error; in both
\* cases no browser is created.
C3_MissingUrl ==
    \A t \in AllWorkers :
        Returned(t) /\ ExtractPost(frame[t]) /\ NoUrlSupplied(frame[t].request.body) =>
            /\ IF frame[t].request.body.kind = "object"
               THEN IsErrorResp(frame[t].ret, 400)
               ELSE IsErrorResp(frame[t].ret, 500)
            /\ frame[t].launches = 0 /\ BrowsersOf(frame[t].id) = {}

\* C3 witness: an object body with an empty url, answered 400 without browser.
C3_Witness ==
    \E t \in AllWorkers :
        /\ Returned(t) /\ ExtractPost(frame[t])
        /\ frame[t].request.body = ObjectUrl(PyStr(<<>>))
        /\ frame[t].ret.status = 400
        /\ frame[t].launches = 0

\* The page holds no video source: no video element with a non-empty src in
\* the frame or the top-level document, and no script with 'http' and '.m3u8'.
NoVideoSource(p) ==
    /\ ~Truthy(p.frameVideo.src)
    /\ ~Truthy(p.topVideo.src)
    /\ FirstM3u8(p.topScripts) = PyNone
    /\ FirstM3u8(p.frameScripts) = PyNone

\* C4 as stated: a POST with a url whose page (an iframe in it) holds no
\* video source is answered 404 with success = false and an error (the
\* browser starting, loading the page and quitting normally), also when the
\* page has no video element at all.
C4_Claim ==
    \A t \in AllWorkers :
        ( /\ Returned(t) /\ ExtractPost(frame[t])
          /\ ~NoUrlSupplied(frame[t].request.body)
          /\ frame[t].request.page.hasIframe
          /\ NoVideoSource(frame[t].request.page)
          /\ ~EnvFailure(frame[t]) )
        => IsErrorResp(frame[t].ret, 404)

\* An exception of the request left extract_video_from_iframe or a statement
\* of the handler (the inner except of line 84 handles those of lines 71-78).
Propagated(f) == \E i \in 1..Len(f.raised) : f.raised[i].at \notin {"L71", "L75"}
LastRaised(f) == f.raised[Len(f.raised)].exc

C6_Claim ==
    \A t \in AllWorkers : frame[t].navs > 0 => frame[t].navLimit = TIMEOUT

\* The strings a page offers as a result: the src of its video elements and
\* the contents of its scripts.
Sources(p) ==
    {p.frameVideo.src, p.topVideo.src}
    \cup {PyStr(p.topScripts[i]) : i \in 1..Len(p.topScripts)}
    \cup {PyStr(p.frameScripts[i]) : i \in 1..Len(p.frameScripts)}

\* C7: with parallel workers, a browser is used and quit only by the request
\* that created it, no two handlers hold the same browser, and a response is
\* decided by the request's own page and its own failures.
C7_Isolation ==
    /\ \A b \in DOMAIN browsers : browsers[b].users \subseteq {browsers[b].owner}
    /\ \A t \in AllWorkers : frame[t].driver # 0 =>
         /\ browsers[frame[t].driver].owner = frame[t].id
         /\ \A u \in AllWorkers \ {t} : frame[u].driver # frame[t].driver
    /\ \A t \in AllWorkers :
         Returned(t) /\ ExtractPost(frame[t]) =>
            /\ frame[t].ret.status = 500 <=> Propagated(frame[t])
            /\ frame[t].ret.status = 200 =>
                 /\ Truthy(frame[t].ret.video_url)
                 /\ frame[t].ret.video_url \in Sources(frame[t].request.page)

\* C7 witness: a request answered 500 while an earlier request, still being
\* handled in another worker with its own browser, has found its video.
C7_Witness ==
    \E t \in AllWorkers : \E u \in AllWorkers \ {t} :
        /\ Returned(t) /\ frame[t].ret.status = 500 /\ frame[t].driver # 0
        /\ frame[u].pc = "L158" /\ Truthy(frame[u].video_url)
        /\ frame[u].driver # 0 /\ frame[u].driver # frame[t].driver
        /\ frame[u].id < frame[t].id

\* C8: OPTIONS on either POST route is answered 200 with an empty JSON
\* object, whatever the body; the body is not read and no browser is created.
C8_Preflight ==
    \A t \in AllWorkers :
        Returned(t) /\ frame[t].request.method = "OPTIONS" =>
            /\ frame[t].ret.status = 200 /\ frame[t].ret.keys = {}
            /\ frame[t].data = NoData /\ frame[t].iframe_url = PyNone
            /\ frame[t].raised = <<>>
            /\ frame[t].launches = 0 /\ BrowsersOf(frame[t].id) = {}

\* C8 witness: OPTIONS with a JSON body carrying a url, answered 200.
C8_Witness ==
    \E t \in AllWorkers :
        /\ Returned(t) /\ frame[t].request.method = "OPTIONS"
        /\ frame[t].request.body = ObjectUrl(UrlA)
        /\ frame[t].ret.status = 200

\* The fallback chain as C9 states it: A (video src in the frame), then B
\* (video src in the top-level document), then C (scripts).
YieldsA(p) == p.hasIframe /\ p.frameVideo.present /\ Truthy(p.frameVideo.src)
YieldsB(p) == p.topVideo.present /\ Truthy(p.topVideo.src)
ChainTried(p) ==
    IF YieldsA(p) THEN <<"A">>
    ELSE IF YieldsB(p) THEN <<"A", "B">>
    ELSE <<"A", "B", "C">>
ChainResult(p) ==
    IF YieldsA(p) THEN p.frameVideo.src
    ELSE IF YieldsB(p) THEN p.topVideo.src
    ELSE FirstM3u8(p.topScripts)

\* C9 as stated: the lookups are a strict fallback chain; B is tried whenever
\* A yields no url, C whenever B yields none, the first non-empty result is
\* returned, and None only after all three lookups failed.
C9_Claim ==
    \A t \in AllWorkers :
        ( /\ Returned(t) /\ ExtractPost(frame[t])
          /\ ~NoUrlSupplied(frame[t].request.body)
          /\ ~EnvFailure(frame[t]) )
        => /\ frame[t].tried = ChainTried(frame[t].request.page)
           /\ frame[t].video_url = ChainResult(frame[t].request.page)
           /\ frame[t].ret.status \in {200, 404}

\* v is a video source of page p: a non-empty src of one of its video
\* elements, or the content of one of its scripts with 'http' and '.m3u8'.
IsVideoSource(p, v) ==
    \/ Truthy(v) /\ v \in {p.frameVideo.src, p.topVideo.src}
    \/ \E c \in {p.topScripts[i] : i \in 1..Len(p.topScripts)}
             \cup {p.frameScripts[i] : i \in 1..Len(p.frameScripts)} :
          v = PyStr(c) /\ Contains("http", c) /\ Contains(".m3u8", c)

\* C10: a request gets exactly one response; its status is 200, 400, 404 or
\* 500; success = true exactly with 200; and 200 is answered only when a
\* browser was created and extraction returned a non-empty video source of
\* the page, which is the video_url of the response.
C10_ResponseShape ==
    /\ \A id \in 1..MaxReq :
         /\ Len(responses[id]) <= 1
         /\ Len(responses[id]) = 1 <=>
              (id < nextReq /\ \A t \in AllWorkers : frame[t].id # id)
         /\ \A i \in 1..Len(responses[id]) : responses[id][i] \in {200, 400, 404, 500}
    /\ \A t \in AllWorkers :
         Returned(t) /\ ExtractPost(frame[t]) =>
            /\ frame[t].ret.status \in {200, 400, 404, 500}
            /\ "success" \in frame[t].ret.keys
            /\ frame[t].ret.success <=> frame[t].ret.status = 200
            /\ frame[t].ret.status = 200 =>
                 /\ frame[t].launches = 1 /\ BrowsersOf(frame[t].id) # {}
                 /\ Truthy(frame[t].ret.video_url)
                 /\ frame[t].ret.video_url = frame[t].video_url
                 /\ IsVideoSource(frame[t].request.page, frame[t].ret.video_url)

\* C10 witness: the three lookups ran and the content of a script is answered
\* as the video_url of a 200 response.
C10_Witness ==
    \E t \in AllWorkers :
        /\ Returned(t) /\ ExtractPost(frame[t])
        /\ frame[t].tried = <<"A", "B", "C">>
        /\ frame[t].ret.status = 200
        /\ frame[t].ret.video_url = PyStr(ScriptM3u8)

====
